---- MODULE Spec2Model ----
(***************************************************************************)
(* Model of src/src/App.js: the React component App of the face-detection  *)
(* demo.  The state is the component's useState cells, its two refs, the   *)
(* face-api nets, the media streams handed out by getUserMedia, the        *)
(* recurring timers created by handleVideoOnPlay, the asynchronous calls   *)
(* in flight (loadFromUri, getUserMedia, detectAllFaces, toBlob) and what  *)
(* the capture pipeline produced.                                          *)
(*                                                                         *)
(* Conventions.                                                            *)
(*  - A confidence score s in [0,1] is held as the integer 100*s, so the   *)
(*    test `_score > 0.7` reads `score > 70`.                              *)
(*  - Box coordinates are integers (pixels).                               *)
(*  - React re-renders after every state update; the render result that    *)
(*    matters (is the <video>/<canvas> pair mounted, is the capture button *)
(*    rendered) is recomputed as part of every action that updates state.  *)
(*  - A <video>/<canvas> pair that is unmounted is gone: a later mount     *)
(*    creates fresh elements (no srcObject, blank canvas).                 *)
(***************************************************************************)
EXTENDS Integers, Sequences, FiniteSets, TLC

VARIABLES
    selectedModel,  \* useState(null): "null", "ssd", "tiny"
    captureVideo,   \* useState(false)
    modelsLoaded,   \* useState(false)
    detections,     \* useState([]): sequence of [box, score]
    isLoaded,       \* faceapi.nets.<net>.isLoaded, per net
    loading,        \* loadModel calls suspended at `await loadFromUri`, in start order
    streams,        \* getUserMedia: calls pending, acquired streams whose tracks are live
    mounted,        \* videoRef.current and canvasRef.current are set (the pair is rendered)
    srcObject,      \* videoRef.current.srcObject is set (to a live stream)
    frame,          \* the frame the mounted <video> currently shows, NoFrame if none
    playPending,    \* 'play' events fired by video.play() and not yet delivered to onPlay
    timers,         \* the intervals created by setInterval (never cleared), by kind
    inflight,       \* interval callbacks suspended at `await detectAllFaces`, in start order
    overlay,        \* what the mounted overlay <canvas> holds
    captureButton,  \* the capture button is rendered
    lastCapture,    \* what the most recent captureImage call did, until the next tick
    captures        \* toBlob calls: made, pending, ended without data; downloads triggered

vars == <<selectedModel, captureVideo, modelsLoaded, detections, isLoaded, loading,
          streams, mounted, srcObject, frame, playPending, timers, inflight, overlay,
          captureButton, lastCapture, captures>>

reactState == <<selectedModel, captureVideo, modelsLoaded, detections>>
elementVars == <<srcObject, frame, playPending, overlay>>
captureVars == <<lastCapture, captures>>

----------------------------------------------------------------------------
(* Program constants *)

videoHeight == 480
videoWidth == 640
padding == 40
passportWidth == 400
passportHeight == 500
\* 0.7 of line 231, as a percentage
ScoreThreshold == 70

(* Bounds of the model *)

\* media streams pending or live at once
MaxStreams == 1
\* loadModel calls suspended at once
MaxLoading == 2
\* detectAllFaces calls in flight at once
MaxInFlight == 2
\* toBlob calls made in one run
MaxCaptures == 2
\* spacing of the coordinate grid the crop arithmetic is checked on
GridStep == 40

----------------------------------------------------------------------------
(* Values *)

NoFrame == 0
\* identities of the frames a playing video shows
Frames == {1, 2}

\* the buttons rendered at lines 201-206 call loadModel with these
Models == {"ssd", "tiny"}

\* the face-api nets the component refers to
Nets == {"ssdMobilenetv1", "tinyFaceDetector", "faceLandmark68Net"}

\* the net loadModel loads for a model (lines 21-27)
NetOf(model) ==
    IF model = "ssd" THEN "ssdMobilenetv1"
    ELSE IF model = "tiny" THEN "tinyFaceDetector"
    ELSE "faceLandmark68Net"

\* the nets the detector call of a tick runs for a model (lines 77-83)
NetsUsed(model) ==
    IF model = "ssd" THEN {"ssdMobilenetv1"}
    ELSE IF model = "tiny" THEN {"tinyFaceDetector"}
    ELSE {"ssdMobilenetv1", "faceLandmark68Net"}

Max(a, b) == IF a >= b THEN a ELSE b
Min(a, b) == IF a <= b THEN a ELSE b

RemoveAt(s, i) == SubSeq(s, 1, i - 1) \o SubSeq(s, i + 1, Len(s))

Box(x, y, w, h) == [x |-> x, y |-> y, width |-> w, height |-> h]
Det(box, score) == [box |-> box, score |-> score]

\* Results the detector is let to return (after resizeResults): one face at
\* the top-left corner whose score is exactly 0.7, one confident face in the
\* middle, and two faces, the first at the bottom-right corner and less
\* confident than the second.
CentreBox == Box(300, 200, 100, 120)
CornerBox == Box(10, 10, 50, 50)
EdgeBox == Box(580, 380, 60, 100)
DetectorResults ==
    { <<Det(CornerBox, 70)>>,
      <<Det(CentreBox, 93)>>,
      <<Det(EdgeBox, 60), Det(CentreBox, 95)>> }

BlankOverlay == [frame |-> NoFrame, boxes |-> {}, lines |-> {}]

NoCrop == Box(0, 0, 0, 0)
NoImage == [width |-> 0, height |-> 0, crop |-> NoCrop, pixels |-> BlankOverlay]
\* lastCapture.path: "none" (no call recorded), "noRefs" (returned at line
\* 114), "noDetections" (line 120 false), "encoding" (toBlob called);
\* repeat: the call before it was an "encoding" one on the same frame and
\* the same detections, with no tick in between
NoCapture == [path |-> "none", frame |-> NoFrame, detections |-> <<>>,
              crop |-> NoCrop, image |-> NoImage, repeat |-> FALSE]

----------------------------------------------------------------------------
(* Rendering (lines 196-237) *)

\* the <video>/<canvas> branch of the conditional at line 222
VideoRendered(cv, ml) == cv /\ ml

\* (mutant) the comparison of line 231 is not strict
ButtonRenderedAtLeast(dets) == \E i \in DOMAIN dets : dets[i].score >= ScoreThreshold

\* the condition of the capture button at line 231
ButtonRendered(dets) == \E i \in DOMAIN dets : dets[i].score > ScoreThreshold

\* the detections a drawing loop (lines 95-107, 128-140) goes over
Annotated(dets) == { dets[i] : i \in DOMAIN dets }

\* The render that follows a state update.  The pair of elements survives
\* only if it is rendered both before and after; otherwise the refs point to
\* nothing or to fresh elements, pending 'play' events of the old <video> are
\* lost, and suspended interval callbacks hold a canvas that is off screen.
Rerender ==
    /\ mounted' = VideoRendered(captureVideo', modelsLoaded')
    /\ captureButton' = ButtonRendered(detections')
    /\ IF mounted /\ mounted'
         THEN UNCHANGED <<elementVars, inflight>>
         ELSE /\ srcObject' = FALSE
              /\ frame' = NoFrame
              /\ playPending' = 0
              /\ overlay' = BlankOverlay
              /\ inflight' = [i \in DOMAIN inflight |-> [inflight[i] EXCEPT !.stale = TRUE]]

----------------------------------------------------------------------------
(* Init: the component as constructed (lines 5-10), nothing requested *)

Init ==
    /\ selectedModel = "null"
    /\ captureVideo = FALSE
    /\ modelsLoaded = FALSE
    /\ detections = <<>>
    /\ isLoaded = [n \in Nets |-> FALSE]
    /\ loading = <<>>
    /\ streams = [pending |-> 0, live |-> 0]
    /\ mounted = FALSE
    /\ srcObject = FALSE
    /\ frame = NoFrame
    /\ playPending = 0
    /\ timers = {}
    /\ inflight = <<>>
    /\ overlay = BlankOverlay
    /\ captureButton = FALSE
    /\ lastCapture = NoCapture
    /\ captures = [made |-> 0, pending |-> 0, empty |-> 0, downloads |-> 0]

----------------------------------------------------------------------------
(* loadModel (lines 15-35) *)

\* a loadModel(model) call suspended at lines 22-26.  alone: no other
\* loadModel call has run or been suspended since it was called
NewLoad(model, others) == [model |-> model, alone |-> others = <<>>]

\* another loadModel call runs while these are suspended
Overlapped(calls) == [i \in DOMAIN calls |-> [calls[i] EXCEPT !.alone = FALSE]]

\* The click on a "Load ..." button; the button is disabled while its model is
\* the selected one.  With the net already loaded nothing is awaited and the
\* three updates are applied as one batch; otherwise the call suspends at
\* loadFromUri with modelsLoaded false.
loadModel(model) ==
    /\ selectedModel # model
    /\ IF isLoaded[NetOf(model)]
         THEN /\ selectedModel' = model
              /\ modelsLoaded' = TRUE
              /\ loading' = Overlapped(loading)
         ELSE /\ Len(loading) < MaxLoading
              /\ modelsLoaded' = FALSE
              /\ loading' = Append(Overlapped(loading), NewLoad(model, loading))
              /\ UNCHANGED selectedModel
    /\ UNCHANGED <<captureVideo, detections>>
    /\ Rerender
    /\ UNCHANGED <<isLoaded, streams, timers, captureVars>>

\* (mutant) lines 29-31 run although loadFromUri failed
LoadOutcomeIgnoringError(ok, model, sel, ml) == [selectedModel |-> model, modelsLoaded |-> TRUE]

\* lines 29-34: selectedModel and modelsLoaded after loadFromUri has settled
\* (lines 30-31), or failed and the catch has run
LoadOutcome(ok, model, sel, ml) ==
    IF ok THEN [selectedModel |-> model, modelsLoaded |-> TRUE]
          ELSE [selectedModel |-> sel, modelsLoaded |-> ml]

\* loadFromUri of the i-th suspended loadModel call settles: lines 29-31 on
\* success, the catch of lines 32-34 on failure.
loadFromUriSettled(i, ok) ==
    /\ i \in DOMAIN loading
    /\ loading' = RemoveAt(loading, i)
    /\ isLoaded' = IF ok THEN [isLoaded EXCEPT ![NetOf(loading[i].model)] = TRUE] ELSE isLoaded
    /\ selectedModel' = LoadOutcome(ok, loading[i].model, selectedModel, modelsLoaded).selectedModel
    /\ modelsLoaded' = LoadOutcome(ok, loading[i].model, selectedModel, modelsLoaded).modelsLoaded
    /\ UNCHANGED <<captureVideo, detections>>
    /\ Rerender
    /\ UNCHANGED <<streams, timers, captureVars>>

----------------------------------------------------------------------------
(* startVideo (lines 38-56) *)

\* The click on "Open Webcam" (rendered unless captureVideo && modelsLoaded);
\* the call returns at line 41 unless modelsLoaded.
startVideo ==
    /\ ~(captureVideo /\ modelsLoaded)
    /\ modelsLoaded
    /\ streams.pending + streams.live < MaxStreams
    /\ captureVideo' = TRUE
    /\ streams' = [streams EXCEPT !.pending = @ + 1]
    /\ UNCHANGED <<selectedModel, modelsLoaded, detections>>
    /\ Rerender
    /\ UNCHANGED <<isLoaded, loading, timers, captureVars>>

\* A pending getUserMedia call settles: the then-callback of lines 47-52 (the
\* stream replaces whatever the <video> held, and play() fires a 'play'
\* event) or the catch of lines 53-55.
getUserMediaSettled(ok) ==
    /\ streams.pending > 0
    /\ IF ok
         THEN /\ streams' = [streams EXCEPT !.pending = @ - 1, !.live = @ + 1]
              /\ IF mounted
                   THEN /\ srcObject' = TRUE
                        /\ frame' = 1
                        /\ playPending' = playPending + 1
                   ELSE UNCHANGED <<srcObject, frame, playPending>>
         ELSE /\ streams' = [streams EXCEPT !.pending = @ - 1]
              /\ UNCHANGED <<srcObject, frame, playPending>>
    /\ UNCHANGED <<reactState, isLoaded, loading, mounted, timers, inflight, overlay,
                   captureButton, captureVars>>

\* the playing <video> shows its next frame
nextFrame ==
    /\ mounted
    /\ srcObject
    /\ \E f \in Frames \ {frame} : frame' = f
    /\ UNCHANGED <<reactState, isLoaded, loading, streams, mounted, srcObject, playPending,
                   timers, inflight, overlay, captureButton, captureVars>>

----------------------------------------------------------------------------
(* closeWebcam (lines 186-194) *)

\* lines 187-192: the tracks of the stream the <video> holds, if the ref is
\* set and holds one, are stopped
StopTracks(ss, ref, src) == IF ref /\ src THEN [ss EXCEPT !.live = @ - 1] ELSE ss

\* The click on "Close Webcam" (rendered when captureVideo && modelsLoaded).
closeWebcam ==
    /\ captureVideo /\ modelsLoaded
    /\ streams' = StopTracks(streams, mounted, srcObject)
    /\ captureVideo' = FALSE
    /\ timers' = { [t EXCEPT !.closed = TRUE] : t \in timers }
    /\ UNCHANGED <<selectedModel, modelsLoaded, detections>>
    /\ Rerender
    /\ UNCHANGED <<isLoaded, loading, captureVars>>

----------------------------------------------------------------------------
(* handleVideoOnPlay and its interval callback (lines 59-111) *)

\* the interval created at line 65; its callback closes over the selectedModel
\* of the render whose handler received the 'play' event.  closed: closeWebcam
\* has run since the interval was created.  Two intervals of the same kind
\* (same model, same closed) run the same callback on the same state, so
\* timers holds the kinds of the intervals that exist.
NewTimer(model) == [model |-> model, closed |-> FALSE]

\* A 'play' event of the mounted <video> reaches onPlay (line 224).
handleVideoOnPlay ==
    /\ mounted
    /\ playPending > 0
    /\ playPending' = playPending - 1
    /\ IF ~modelsLoaded \/ selectedModel = "null"
         THEN UNCHANGED timers
         ELSE timers' = timers \cup {NewTimer(selectedModel)}
    /\ UNCHANGED <<reactState, isLoaded, loading, streams, mounted, srcObject, frame,
                   inflight, overlay, captureButton, captureVars>>

\* the detectAllFaces call of lines 77-83, suspended.  model: the selectedModel
\* the callback closed over, which picks the branch of lines 77-83; stale: the
\* canvas the callback holds has been unmounted since
NewCall(model) == [model |-> model, stale |-> FALSE]

\* (mutant) a tick makes no call while an earlier one is unresolved
CallsInFlightOneAtATime(calls, fr, model) ==
    IF fr # NoFrame /\ calls = <<>> THEN Append(calls, NewCall(model)) ELSE calls

\* The detector is outside this repository.  Given a <video> that shows no
\* frame it has no face to return, and the rest of the callback then does
\* nothing (line 85), so only the calls made on a frame are kept in inflight.
CallsInFlight(calls, fr, model) ==
    IF fr # NoFrame THEN Append(calls, NewCall(model)) ELSE calls

\* The interval callback of timer t runs up to its await (lines 66-83): with
\* both refs set it clears the overlay and calls the detector; without them
\* it does nothing.  The interval is never cleared, so this is always possible.
tick(t) ==
    /\ t \in timers
    /\ IF mounted
         THEN /\ Len(CallsInFlight(inflight, frame, t.model)) <= MaxInFlight
              /\ overlay' = BlankOverlay
              /\ inflight' = CallsInFlight(inflight, frame, t.model)
              /\ lastCapture' = NoCapture
         ELSE UNCHANGED <<overlay, inflight, lastCapture>>
    /\ UNCHANGED <<reactState, isLoaded, loading, streams, mounted, srcObject, frame,
                   playPending, timers, captureButton, captures>>

\* what lines 89-107 add to the canvas the callback holds
DrawDetections(ov, dets) ==
    [ov EXCEPT !.boxes = @ \cup Annotated(dets), !.lines = @ \cup Annotated(dets)]

\* What the detector can return for a call.  Run on a net that is not loaded
\* the call is rejected and the callback ends at its await, which leaves the
\* component as a result without faces does.
ResultsFor(call) ==
    IF \A n \in NetsUsed(call.model) : isLoaded[n]
      THEN DetectorResults \cup {<<>>}
      ELSE {<<>>}

\* (mutant) the result is stored whether or not it holds a face
StoredDetectionsAlways(dets, result) == result

\* lines 85-87: what the detections cell holds once a callback given `result`
\* has run
StoredDetections(dets, result) == IF Len(result) > 0 THEN result ELSE dets

\* The detectAllFaces call of the i-th suspended callback resolves with
\* `result` and the callback runs to its end (lines 85-108).
detectSettled(i, result) ==
    /\ i \in DOMAIN inflight
    /\ result \in ResultsFor(inflight[i])
    /\ inflight' = RemoveAt(inflight, i)
    /\ detections' = StoredDetections(detections, result)
    /\ IF Len(result) > 0 /\ ~inflight[i].stale
         THEN /\ overlay' = DrawDetections(overlay, result)
              /\ lastCapture' = NoCapture
         ELSE UNCHANGED <<overlay, lastCapture>>
    /\ captureButton' = ButtonRendered(detections')
    /\ UNCHANGED <<selectedModel, captureVideo, modelsLoaded, isLoaded, loading, streams,
                   mounted, srcObject, frame, playPending, timers, captures>>

----------------------------------------------------------------------------
(* captureImage (lines 113-181) *)

\* (mutant) the most confident face is taken
PrimaryFaceBest(dets) ==
    (CHOOSE d \in Annotated(dets) : \A e \in Annotated(dets) : e.score <= d.score).box

\* line 121: the face the crop is computed from
PrimaryFace(dets) == dets[1].box

\* (mutant) the crop is shifted back inside the frame
CropRectShifted(face) ==
    LET w == Min(face.width + padding * 2, videoWidth)
        h == Min(face.height + padding * 2, videoHeight)
    IN [x |-> Min(Max(face.x - padding, 0), videoWidth - w),
        y |-> Min(Max(face.y - padding, 0), videoHeight - h),
        width |-> w,
        height |-> h]

\* lines 143-146
CropRect(face) ==
    [x |-> Max(face.x - padding, 0),
     y |-> Max(face.y - padding, 0),
     width |-> Min(face.width + padding * 2, videoWidth),
     height |-> Min(face.height + padding * 2, videoHeight)]

\* lines 125-140: the video frame is drawn over the whole canvas (nothing is
\* drawn if the <video> has no frame yet), then one line and label per detection
DrawCapture(ov, fr, dets) ==
    IF fr # NoFrame
      THEN [frame |-> fr, boxes |-> {}, lines |-> Annotated(dets)]
      ELSE [ov EXCEPT !.lines = @ \cup Annotated(dets)]

\* (mutant) the passport canvas takes the size of the crop
PassportImageCropSized(canvas, crop) ==
    [width |-> crop.width, height |-> crop.height, crop |-> crop, pixels |-> canvas]

\* (mutant) the passport canvas is drawn from the canvas as it was before lines 125-140
PassportImageStale(canvas, crop) ==
    [width |-> passportWidth, height |-> passportHeight, crop |-> crop, pixels |-> overlay]

\* lines 149-165: the passport canvas, the crop of the working canvas drawn into it
PassportImage(canvas, crop) ==
    [width |-> passportWidth, height |-> passportHeight, crop |-> crop, pixels |-> canvas]

\* line 168: toBlob is called; its callback runs later
ToBlob(cs) == [cs EXCEPT !.made = @ + 1, !.pending = @ + 1]

\* what lines 121-179 do with the refs set and some detection stored
Encode ==
    /\ captures.made < MaxCaptures
    /\ LET canvas == DrawCapture(overlay, frame, detections)
           crop == CropRect(PrimaryFace(detections))
       IN /\ overlay' = canvas
          /\ lastCapture' = [path |-> "encoding", frame |-> frame,
                             detections |-> detections, crop |-> crop,
                             image |-> PassportImage(canvas, crop),
                             repeat |-> /\ lastCapture.path = "encoding"
                                        /\ lastCapture.frame = frame
                                        /\ lastCapture.detections = detections]
    /\ captures' = ToBlob(captures)

\* (mutant) the test of line 120 is missing: with nothing detected the whole
\* frame is encoded
captureImageUnguarded ==
    IF ~mounted
      THEN /\ lastCapture' = [NoCapture EXCEPT !.path = "noRefs"]
           /\ UNCHANGED <<overlay, captures>>
      ELSE IF Len(detections) > 0
        THEN Encode
        ELSE /\ captures.made < MaxCaptures
             /\ overlay' = DrawCapture(overlay, frame, detections)
             /\ lastCapture' = [NoCapture EXCEPT !.path = "encoding", !.frame = frame]
             /\ captures' = ToBlob(captures)

\* The body of captureImage.
captureImage ==
    IF ~mounted
      THEN /\ lastCapture' = [NoCapture EXCEPT !.path = "noRefs"]
           /\ UNCHANGED <<overlay, captures>>
      ELSE IF Len(detections) > 0
        THEN Encode
        ELSE /\ lastCapture' = [NoCapture EXCEPT !.path = "noDetections"]
             /\ UNCHANGED <<overlay, captures>>

\* The click on the capture button (line 232).
clickCapture ==
    /\ captureButton
    /\ captureImage
    /\ UNCHANGED <<reactState, isLoaded, loading, streams, mounted, srcObject, frame,
                   playPending, timers, inflight, captureButton>>

\* (mutant) the test of line 169 is missing
BlobCallbackUngated(cs, blob) ==
    IF blob = "data"
      THEN [cs EXCEPT !.pending = @ - 1, !.downloads = @ + 1]
      ELSE [cs EXCEPT !.pending = @ - 1, !.empty = @ + 1, !.downloads = @ + 1]

\* (mutant) the link is clicked twice
BlobCallbackTwice(cs, blob) ==
    IF blob = "data"
      THEN [cs EXCEPT !.pending = @ - 1, !.downloads = @ + 2]
      ELSE [cs EXCEPT !.pending = @ - 1, !.empty = @ + 1]

\* lines 168-179: the callback of a pending toBlob call, given data or null
BlobCallback(cs, blob) ==
    IF blob = "data"
      THEN [cs EXCEPT !.pending = @ - 1, !.downloads = @ + 1]
      ELSE [cs EXCEPT !.pending = @ - 1, !.empty = @ + 1]

\* Encoding of a capture ends, with data or with none, and the callback runs.
toBlobCallback(blob) ==
    /\ captures.pending > 0
    /\ captures' = BlobCallback(captures, blob)
    /\ UNCHANGED <<reactState, isLoaded, loading, streams, mounted, srcObject, frame,
                   playPending, timers, inflight, overlay, captureButton, lastCapture>>

----------------------------------------------------------------------------
(* The component in the browser *)

Next ==
    \/ \E m \in Models : loadModel(m)
    \/ \E i \in 1..MaxLoading, ok \in BOOLEAN : loadFromUriSettled(i, ok)
    \/ startVideo
    \/ \E ok \in BOOLEAN : getUserMediaSettled(ok)
    \/ nextFrame
    \/ closeWebcam
    \/ handleVideoOnPlay
    \/ \E t \in timers : tick(t)
    \/ \E i \in 1..MaxInFlight, r \in DetectorResults \cup {<<>>} : detectSettled(i, r)
    \/ clickCapture
    \/ \E b \in {"data", "null"} : toBlobCallback(b)

Spec == Init /\ [][Next]_vars

----------------------------------------------------------------------------
(* One model loaded: the component after loadModel("ssd") has succeeded     *)
(* (Init, loadModel("ssd"), loadFromUriSettled(1, TRUE)), the user then *)
(* opening and closing the webcam and capturing, no further model load.     *)

LoadedInit ==
    /\ selectedModel = "ssd"
    /\ captureVideo = FALSE
    /\ modelsLoaded = TRUE
    /\ detections = <<>>
    /\ isLoaded = [n \in Nets |-> n = "ssdMobilenetv1"]
    /\ loading = <<>>
    /\ streams = [pending |-> 0, live |-> 0]
    /\ mounted = FALSE
    /\ srcObject = FALSE
    /\ frame = NoFrame
    /\ playPending = 0
    /\ timers = {}
    /\ inflight = <<>>
    /\ overlay = BlankOverlay
    /\ captureButton = FALSE
    /\ lastCapture = NoCapture
    /\ captures = [made |-> 0, pending |-> 0, empty |-> 0, downloads |-> 0]

NextSession ==
    \/ startVideo
    \/ \E ok \in BOOLEAN : getUserMediaSettled(ok)
    \/ nextFrame
    \/ closeWebcam
    \/ handleVideoOnPlay
    \/ \E t \in timers : tick(t)
    \/ \E i \in 1..MaxInFlight, r \in DetectorResults \cup {<<>>} : detectSettled(i, r)
    \/ clickCapture
    \/ \E b \in {"data", "null"} : toBlobCallback(b)

SpecSession == LoadedInit /\ [][NextSession]_vars

----------------------------------------------------------------------------
(* captureImage called as a function: the same component, with captureImage *)
(* also invoked while its button is not rendered (as a test of the handler  *)
(* does), which is the only way to call it with no detection stored.        *)

captureImageCall ==
    /\ ~captureButton
    /\ captureImage
    /\ UNCHANGED <<reactState, isLoaded, loading, streams, mounted, srcObject, frame,
                   playPending, timers, inflight, captureButton>>

NextDirect ==
    \/ startVideo
    \/ \E ok \in BOOLEAN : getUserMediaSettled(ok)
    \/ nextFrame
    \/ closeWebcam
    \/ handleVideoOnPlay
    \/ \E t \in timers : tick(t)
    \/ \E i \in 1..MaxInFlight, r \in DetectorResults \cup {<<>>} : detectSettled(i, r)
    \/ clickCapture
    \/ captureImageCall
    \/ \E b \in {"data", "null"} : toBlobCallback(b)

SpecDirect == LoadedInit /\ [][NextDirect]_vars

----------------------------------------------------------------------------
(* The crop arithmetic on a grid of bounding boxes: the webcam is open and  *)
(* playing, a tick has stored one confident face whose box is any box of    *)
(* the grid that lies within the 640x480 frame, and the user captures.      *)

GridCoords(limit, samples) == { k * GridStep : k \in 0..(limit \div GridStep) } \cup samples

\* the boxes of the grid, and those of the spec's two scenarios
GridBoxes ==
    { b \in { Box(x, y, w, h) : x \in GridCoords(videoWidth, {10, 300}),
                                y \in GridCoords(videoHeight, {10, 200}),
                                w \in GridCoords(videoWidth, {50, 100}),
                                h \in GridCoords(videoHeight, {50, 120}) } :
        /\ b.width > 0 /\ b.height > 0
        /\ b.x + b.width <= videoWidth
        /\ b.y + b.height <= videoHeight }

CropInit ==
    /\ \E b \in GridBoxes :
         /\ detections = <<Det(b, 93)>>
         /\ overlay = DrawDetections(BlankOverlay, <<Det(b, 93)>>)
    /\ selectedModel = "ssd"
    /\ captureVideo = TRUE
    /\ modelsLoaded = TRUE
    /\ isLoaded = [n \in Nets |-> n = "ssdMobilenetv1"]
    /\ loading = <<>>
    /\ streams = [pending |-> 0, live |-> 1]
    /\ mounted = TRUE
    /\ srcObject = TRUE
    /\ frame = 1
    /\ playPending = 0
    /\ timers = {NewTimer("ssd")}
    /\ inflight = <<>>
    /\ captureButton = TRUE
    /\ lastCapture = NoCapture
    /\ captures = [made |-> 0, pending |-> 0, empty |-> 0, downloads |-> 0]

NextCrop ==
    \/ clickCapture
    \/ \E b \in {"data", "null"} : toBlobCallback(b)

SpecCrop == CropInit /\ [][NextCrop]_vars

----------------------------------------------------------------------------
(* Loading and detecting: the component from its construction, the user     *)
(* loading models and opening and closing the webcam, the annotation loop   *)
(* running, and the capture button never clicked.                           *)

NextLoop ==
    \/ \E m \in Models : loadModel(m)
    \/ \E i \in 1..MaxLoading, ok \in BOOLEAN : loadFromUriSettled(i, ok)
    \/ startVideo
    \/ \E ok \in BOOLEAN : getUserMediaSettled(ok)
    \/ nextFrame
    \/ closeWebcam
    \/ handleVideoOnPlay
    \/ \E t \in timers : tick(t)
    \/ \E i \in 1..MaxInFlight, r \in DetectorResults \cup {<<>>} : detectSettled(i, r)

SpecLoop == Init /\ [][NextLoop]_vars

----------------------------------------------------------------------------
(* The landmark model: the same, with loadModel("landmark") also called,    *)
(* as the button of lines 207-209 does once it is rendered again.  Lines    *)
(* 25-26 and 81-82 are written for it.                                      *)

loadLandmark == loadModel("landmark")

NextLandmark ==
    \/ loadLandmark
    \/ \E m \in Models : loadModel(m)
    \/ \E i \in 1..MaxLoading, ok \in BOOLEAN : loadFromUriSettled(i, ok)
    \/ startVideo
    \/ \E ok \in BOOLEAN : getUserMediaSettled(ok)
    \/ nextFrame
    \/ closeWebcam
    \/ handleVideoOnPlay
    \/ \E t \in timers : tick(t)
    \/ \E i \in 1..MaxInFlight, r \in DetectorResults \cup {<<>>} : detectSettled(i, r)

SpecLandmark == Init /\ [][NextLandmark]_vars

----------------------------------------------------------------------------
(* Claims *)

\* the face a recorded capture cropped around, and its crop
CapturedFace == lastCapture.detections[1].box
Captured == lastCapture.path = "encoding"

\* C1: for every bounding box of the primary face, the crop rectangle that
\* captureImage computes lies within the 640x480 frame: 0 <= cropX,
\* 0 <= cropY, cropX + cropWidth <= 640, cropY + cropHeight <= 480.
C1_CropWithinFrame ==
    Captured =>
        /\ 0 <= lastCapture.crop.x
        /\ 0 <= lastCapture.crop.y
        /\ lastCapture.crop.x + lastCapture.crop.width <= 640
        /\ lastCapture.crop.y + lastCapture.crop.height <= 480

\* C2: the crop rectangle is cropX = max(x - 40, 0), cropY = max(y - 40, 0),
\* cropWidth = min(width + 80, 640), cropHeight = min(height + 80, 480), with
\* no shift near the edges; box {300,200,100,120} gives {260,160,180,200} and
\* box {10,10,50,50} gives {0,0,130,130}.
C2_CropFormula ==
    Captured =>
        /\ lastCapture.crop.x = (IF CapturedFace.x - 40 > 0 THEN CapturedFace.x - 40 ELSE 0)
        /\ lastCapture.crop.y = (IF CapturedFace.y - 40 > 0 THEN CapturedFace.y - 40 ELSE 0)
        /\ lastCapture.crop.width =
              (IF CapturedFace.width + 80 < 640 THEN CapturedFace.width + 80 ELSE 640)
        /\ lastCapture.crop.height =
              (IF CapturedFace.height + 80 < 480 THEN CapturedFace.height + 80 ELSE 480)
        /\ (CapturedFace = Box(300, 200, 100, 120) => lastCapture.crop = Box(260, 160, 180, 200))
        /\ (CapturedFace = Box(10, 10, 50, 50) => lastCapture.crop = Box(0, 0, 130, 130))

\* a capture of a face whose padded box crosses the right edge, not shifted back
C2_Witness ==
    /\ Captured
    /\ CapturedFace = Box(600, 200, 40, 120)
    /\ lastCapture.crop = Box(560, 160, 120, 200)

\* C3: with more than one detection stored, the crop is derived from the box
\* of the first element, also when another element is more confident.
C3_CropFromFirst ==
    (Captured /\ Len(lastCapture.detections) > 1) =>
        lastCapture.crop = CropRect(lastCapture.detections[1].box)

\* a capture with two faces stored, the second more confident and cropped differently
C3_Witness ==
    /\ Captured
    /\ Len(lastCapture.detections) > 1
    /\ lastCapture.detections[2].score > lastCapture.detections[1].score
    /\ lastCapture.crop # CropRect(lastCapture.detections[2].box)

\* a step in which a captureImage call is recorded
CaptureRecorded == lastCapture' # lastCapture /\ lastCapture'.path # "none"

\* C4: captureImage called with no detection stored starts no encoding,
\* triggers no download and leaves the detections and the overlay as they were.
C4_NoOpOnEmpty ==
    [][(detections = <<>> /\ CaptureRecorded) =>
          /\ lastCapture'.path \in {"noDetections", "noRefs"}
          /\ UNCHANGED <<captures, detections, overlay>>]_vars

\* captureImage has been called with the webcam open and nothing detected
C4_Witness ==
    /\ lastCapture.path = "noDetections"
    /\ mounted
    /\ detections = <<>>
    /\ captures.made = 0

\* C5 as claimed: whenever the capture button is shown, a click starts an
\* encoding, and every encoding that yields data gives exactly one download.
C5_EveryClickDownloads ==
    /\ [][(captureButton /\ clickCapture) =>
            /\ captures'.made = captures.made + 1
            /\ captures'.pending = captures.pending + 1]_vars
    /\ [](captures.made = captures.pending + captures.downloads + captures.empty)

\* C5, amended: whenever the capture button is shown and the <video> and
\* <canvas> are mounted, a click starts exactly one encoding, and every
\* encoding that yields data gives exactly one download; with the pair
\* unmounted a click starts none.
C5_EveryMountedClickDownloads ==
    /\ [][(captureButton /\ mounted /\ clickCapture) =>
            /\ captures'.made = captures.made + 1
            /\ captures'.pending = captures.pending + 1
            /\ captures'.downloads = captures.downloads]_vars
    /\ [][(captureButton /\ ~mounted /\ clickCapture) => captures' = captures]_vars
    /\ [][captures'.downloads # captures.downloads =>
            /\ captures'.downloads = captures.downloads + 1
            /\ captures'.pending = captures.pending - 1
            /\ captures'.made = captures.made]_vars
    /\ [](captures.made = captures.pending + captures.downloads + captures.empty)

\* two captures made, both encoded with data, two downloads
C5_Witness ==
    /\ captures.made = 2
    /\ captures.downloads = 2
    /\ captures.pending = 0

\* C6: a download happens only in the callback of an encoding that ended
\* with data, never in the step that starts the encoding; an encoding that
\* ends without data gives no download, then or later.
C6_DownloadAfterEncoding ==
    /\ [][captures'.made # captures.made => captures'.downloads = captures.downloads]_vars
    /\ [][captures'.downloads > captures.downloads =>
            /\ captures.pending > 0
            /\ captures'.pending = captures.pending - 1
            /\ captures'.empty = captures.empty]_vars
    /\ [][captures'.empty # captures.empty =>
            /\ captures'.empty = captures.empty + 1
            /\ captures'.pending = captures.pending - 1
            /\ captures'.downloads = captures.downloads]_vars
    /\ [](captures.downloads <= captures.made - captures.pending - captures.empty)

\* an encoding has ended without data and nothing was downloaded
C6_Witness ==
    /\ captures.made = 1
    /\ captures.empty = 1
    /\ captures.downloads = 0

\* C7: a captureImage call that follows another on the same video frame and
\* the same detections, with no tick in between, computes the same crop and
\* the same image; and no captureImage call changes the detections.
C7_Idempotent ==
    /\ [][(/\ clickCapture
           /\ mounted
           /\ frame # NoFrame
           /\ lastCapture.path = "encoding"
           /\ lastCapture.frame = frame
           /\ lastCapture.detections = detections) =>
            /\ lastCapture'.crop = lastCapture.crop
            /\ lastCapture'.image = lastCapture.image]_vars
    /\ [][CaptureRecorded => detections' = detections]_vars

\* a second capture of the same frame and detections has been made
C7_Witness ==
    /\ Captured
    /\ lastCapture.repeat
    /\ lastCapture.frame # NoFrame
    /\ captures.made = 2

\* C8: the capture button is rendered exactly when some stored detection has
\* a score above 0.7, so captureImage is only ever triggered by the user in
\* such a state.
C8_ButtonIffConfident ==
    /\ [](captureButton <=> \E i \in 1..Len(detections) : detections[i].score > 70)
    /\ [][CaptureRecorded => \E i \in 1..Len(detections) : detections[i].score > 70]_vars

\* a face is stored whose score is exactly 0.7, and the button is not rendered
C8_Witness ==
    /\ Len(detections) = 1
    /\ detections[1].score = 70
    /\ ~captureButton

\* C9: once closeWebcam has run, the tick callback of a loop started before
\* it does not execute any more.
C9_NoTickAfterClose == \A t \in timers : t.closed => ~ENABLED tick(t)

\* C10: with the webcam closed and no acquisition pending, no acquired media
\* stream has live tracks.
C10_ClosedMeansNoLiveTracks ==
    (~captureVideo /\ streams.pending = 0) => streams.live = 0

\* C11: every tick that invokes the detector does so with the model that is
\* selected at the time of the tick.
C11_TickUsesSelectedModel ==
    [][\A t \in timers :
          (tick(t) /\ Len(inflight') > Len(inflight)) =>
              inflight'[Len(inflight')].model = selectedModel]_vars

\* C12: a tick whose detector call returns no face changes neither the stored
\* detections nor the overlay it cleared at its start; the stored detections,
\* once not empty, never become empty again.
C12_EmptyResultKeepsDetections ==
    /\ [][(\E i \in DOMAIN inflight : detectSettled(i, <<>>)) =>
            UNCHANGED <<detections, overlay, captureButton>>]_vars
    /\ [][\A t \in timers : (tick(t) /\ mounted) =>
            (overlay' = BlankOverlay /\ detections' = detections)]_vars
    /\ [][detections # <<>> => detections' # <<>>]_vars

\* in the first session of the webcam a face was stored, and a later tick
\* cleared the overlay and got no face: the overlay is blank, the face is kept
C12_Witness ==
    /\ detections # <<>>
    /\ overlay = BlankOverlay
    /\ mounted
    /\ frame # NoFrame
    /\ inflight = <<>>
    /\ timers = {NewTimer("ssd")}

\* C13 as claimed: when a loadModel call fails, selectedModel is what it was,
\* modelsLoaded is false and no load is in progress.
C13_FailedLoadLeavesNotLoaded ==
    [][\A i \in DOMAIN loading :
          loadFromUriSettled(i, FALSE) =>
              /\ selectedModel' = selectedModel
              /\ ~modelsLoaded'
              /\ Len(loading') = Len(loading) - 1]_vars

\* C13, amended: when a loadModel call fails and no other loadModel call
\* ran while it was suspended, selectedModel is what it was when the call was
\* made, modelsLoaded is false and no load is in progress; whatever ran
\* meanwhile, the failing call itself changes neither cell and loads no net;
\* modelsLoaded only becomes true by a load that succeeds.
C13_FailedLoadAloneLeavesNotLoaded ==
    /\ [][\A i \in DOMAIN loading :
            (loadFromUriSettled(i, FALSE) /\ loading[i].alone) =>
                /\ selectedModel' = selectedModel
                /\ ~modelsLoaded'
                /\ loading' = <<>>]_vars
    /\ [][(loading # <<>> /\ loading[1].alone /\ loading' = loading) =>
            UNCHANGED <<selectedModel, modelsLoaded>>]_vars
    /\ [][\A i \in DOMAIN loading :
            loadFromUriSettled(i, FALSE) =>
                /\ UNCHANGED <<selectedModel, modelsLoaded, isLoaded>>
                /\ Len(loading') = Len(loading) - 1]_vars
    /\ [][(~modelsLoaded /\ modelsLoaded') =>
            /\ Len(loading') < Len(loading)
            /\ selectedModel' # "null"
            /\ isLoaded'[NetOf(selectedModel')]]_vars

\* a load failed after an earlier one had succeeded: the earlier model is
\* still the selected one and the component is in the not-loaded state
C13_Witness ==
    /\ loading = <<>>
    /\ ~modelsLoaded
    /\ selectedModel = "ssd"
    /\ isLoaded["ssdMobilenetv1"]
    /\ ~isLoaded["tinyFaceDetector"]

\* the webcam is open, the acquisition started by startVideo has failed and
\* none is pending: the <video> is mounted and was given no stream
AcquisitionFailed == mounted /\ ~srcObject /\ streams.pending = 0

\* C14: after the acquisition started by startVideo has failed, and until a
\* later one succeeds, no annotation timer is created, no detector call is
\* started and no capture is encoded for download.
C14_FailedAcquisitionStartsNothing ==
    [][AcquisitionFailed =>
          /\ timers' = timers
          /\ Len(inflight') <= Len(inflight)
          /\ captures'.made = captures.made]_vars

\* C15: every image captureImage produces is 400 wide and 500 high, whatever
\* the size and position of the primary face's box.
C15_OutputSize ==
    Captured => (lastCapture.image.width = 400 /\ lastCapture.image.height = 500)

\* a small face in the corner, cropped to 130x130, has given a 400x500 image
C15_Witness ==
    /\ Captured
    /\ CapturedFace = Box(10, 10, 50, 50)
    /\ lastCapture.image.crop = Box(0, 0, 130, 130)
    /\ lastCapture.image.width = 400
    /\ lastCapture.image.height = 500

\* C16: ticks are not serialized.  A tick can start a detector call while
\* earlier calls are unresolved; any unresolved call, whatever its place in
\* the order of starting, can be the next to resolve; and each call that
\* resolves with faces overwrites the stored detections with its own result,
\* so the calls write in the order they complete and the last to complete
\* wins, be it the first that started.
C16_TicksOverlap ==
    /\ [](\A t \in timers :
            (mounted /\ frame # NoFrame /\ Len(inflight) < MaxInFlight) =>
                ENABLED (tick(t) /\ Len(inflight') = Len(inflight) + 1))
    /\ [](\A i \in DOMAIN inflight : \A r \in DetectorResults :
            ENABLED (detectSettled(i, r) /\ detections' = r))
    /\ [][\A i \in DOMAIN inflight : \A r \in DetectorResults :
            detectSettled(i, r) => detections' = r]_vars

\* two detector calls are in flight on the mounted <video>, started by two
\* ticks, while the result of an earlier call is stored
C16_Witness ==
    /\ mounted
    /\ Len(inflight) = 2
    /\ ~inflight[1].stale
    /\ ~inflight[2].stale
    /\ detections # <<>>

\* C17: in every capture, the detections whose accuracy line and label are
\* in the captured image are those whose annotations the overlay displayed
\* when the capture was made.
C17_CapturedLinesAreOverlayLines ==
    [][(CaptureRecorded /\ lastCapture'.path = "encoding") =>
          lastCapture'.image.pixels.lines = overlay.lines]_vars

C19_AtMostOneTimer == Cardinality(timers) <= 1

====
